---------------------------- MODULE Spec2Model ----------------------------
(***************************************************************************)
(* rfcs-book-gen (src/tools/rfcs-book-gen/src/main.rs): main() takes a     *)
(* source directory and a destination root, and run() builds SUMMARY.md    *)
(* from a sorted listing of the source directory and then copies every     *)
(* source entry into <destination>/src.                                    *)
(*                                                                         *)
(* Strings are sequences of bytes.  A directory is a function from the     *)
(* names of its entries to entries; an entry is a regular file with its    *)
(* bytes or a subdirectory.  The source and the destination directory are  *)
(* two distinct directories.  File permissions are not modelled.           *)
(***************************************************************************)
EXTENDS Integers, Sequences, FiniteSets, TLC

(***************************************************************************)
(* Bounds of the model.                                                    *)
(***************************************************************************)
\* most entries the source directory holds initially
MaxEntries == 2
\* most invocations of the program in a row
MaxRuns == 2
\* most changes another process makes to the source directory (SpecRace)
MaxEnvChanges == 2

(***************************************************************************)
(* Byte strings.                                                           *)
(***************************************************************************)
\* ".md", the pattern of main.rs:25
DotMd == <<46, 109, 100>>
\* "SUMMARY.md", main.rs:30
SummaryName == <<83, 85, 77, 77, 65, 82, 89>> \o DotMd
\* "# RFCS\n\n", main.rs:10
Heading == <<35, 32, 82, 70, 67, 83, 10, 10>>

\* entry names: "a", "a.md", "a.md.md", "a-b.md", "SUMMARY.md", and the
\* single byte 0xFF, a name that is not valid Unicode
NameA == <<97>>
NameAMd == <<97>> \o DotMd
NameAMdMd == <<97>> \o DotMd \o DotMd
NameABMd == <<97, 45, 98>> \o DotMd
NameBad == <<255>>
Names == {NameA, NameAMd, NameAMdMd, NameABMd, SummaryName, NameBad}

\* file contents: "x" in the source, "y" for what the destination held before
DataX == <<120>>
DataY == <<121>>

File(data) == [kind |-> "file", data |-> data]
SubDir == [kind |-> "dir", data |-> <<>>]

EmptyDir == [n \in {} |-> SubDir]

Put(dir, n, e) == [x \in (DOMAIN dir) \cup {n} |-> IF x = n THEN e ELSE dir[x]]

Without(dir, n) == [x \in (DOMAIN dir) \ {n} |-> dir[x]]


(***************************************************************************)
(* Pure functions of run().                                                *)
(***************************************************************************)
EndsWith(s, pat) ==
    /\ Len(pat) <= Len(s)
    /\ SubSeq(s, Len(s) - Len(pat) + 1, Len(s)) = pat

\* str::trim_right_matches(pat), main.rs:25: the pattern is removed from the
\* end of the string as long as the string ends with it
RECURSIVE TrimRightMatches(_, _)
TrimRightMatches(s, pat) ==
    IF Len(pat) > 0 /\ EndsWith(s, pat)
    THEN TrimRightMatches(SubSeq(s, 1, Len(s) - Len(pat)), pat)
    ELSE s

\* OsStr::to_str(), main.rs:25-26: Some exactly when the bytes are UTF-8.
\* Utf8Need(b) is the number of continuation bytes lead byte b asks for, -1
\* when b cannot start a character (overlong forms and surrogates, which
\* need bytes outside the model's names, are not told apart)
Utf8Need(b) ==
    IF b < 128 THEN 0
    ELSE IF b >= 194 /\ b <= 223 THEN 1
    ELSE IF b >= 224 /\ b <= 239 THEN 2
    ELSE IF b >= 240 /\ b <= 244 THEN 3
    ELSE -1

IsContinuation(b) == b >= 128 /\ b <= 191

RECURSIVE IsUtf8(_)
IsUtf8(s) ==
    IF s = <<>> THEN TRUE
    ELSE LET k == Utf8Need(s[1])
         IN /\ k >= 0
            /\ Len(s) >= k + 1
            /\ \A i \in 2..(k + 1) : IsContinuation(s[i])
            /\ IsUtf8(SubSeq(s, k + 2, Len(s)))

\* Ord of OsString (Unix: of its bytes), main.rs:20: the first differing
\* byte decides, and a proper prefix is smaller
RECURSIVE BytesLess(_, _)
BytesLess(a, b) ==
    IF b = <<>> THEN FALSE
    ELSE IF a = <<>> THEN TRUE
    ELSE IF a[1] # b[1] THEN a[1] < b[1]
    ELSE BytesLess(Tail(a), Tail(b))

\* the title of a bullet line, main.rs:25
Title(name) == TrimRightMatches(name, DotMd)

\* a faulty SortKey: the names are ordered by their titles
SortKeyTitle(name) == Title(name)

\* the key Vec::sort() compares, main.rs:20: the whole file name
SortKey(name) == name

RECURSIVE InsertSorted(_, _)
InsertSorted(x, s) ==
    IF s = <<>> THEN <<x>>
    ELSE IF ~BytesLess(SortKey(s[1]), SortKey(x)) THEN <<x>> \o s
    ELSE <<s[1]>> \o InsertSorted(x, Tail(s))

\* Vec::sort(), main.rs:20: a stable sort, here by insertion from the back
RECURSIVE SortNames(_)
SortNames(s) ==
    IF s = <<>> THEN <<>>
    ELSE InsertSorted(s[1], SortNames(Tail(s)))

\* format!("- [{}]({})\n", title, name), main.rs:23-27
BulletLine(name) ==
    <<45, 32, 91>> \o Title(name) \o <<93, 40>> \o name \o <<41, 10>>

\* the loop of main.rs:22-28 over the sorted names, appended to buf
RECURSIVE FormatLines(_)
FormatLines(names) ==
    IF names = <<>> THEN <<>>
    ELSE BulletLine(names[1]) \o FormatLines(Tail(names))

\* the names of a directory in every order read_dir() may return them
Listings(dir) ==
    LET S == DOMAIN dir
    IN {q \in [1..Cardinality(S) -> S] : \A i, j \in DOMAIN q : i # j => q[i] # q[j]}

\* a faulty CopiedData: the bytes are appended to what the file held
CopiedDataAppended(from, old) == old \o from

\* what fs::copy() leaves in the destination file, main.rs:35: the file is
\* truncated and receives the bytes of the source file
CopiedData(from, old) == from

\* a faulty SourceAfterCopy: the entry is moved, not copied
SourceAfterMove(dir, n) == Without(dir, n)

\* the entry left in the source directory by the copy of main.rs:35
SourceAfterCopy(dir, n) == dir

\* a faulty DirAfterCreateDirAll: the directory is made anew, empty
DirMadeAnew(dir) == EmptyDir

\* fs::create_dir_all(), main.rs:12, on a destination that is a directory
\* already: nothing changes
DirAfterCreateDirAll(dir) == dir

\* a faulty SecondListing: the copy loop walks the names collected for the
\* index
FirstListingAgain(dir, firstNames) == {firstNames}

\* the entries the copy loop walks, main.rs:33: a new read_dir() of the
\* source directory (not the names collected at main.rs:14-18)
SecondListing(dir, firstNames) == Listings(dir)

(***************************************************************************)
(* State.                                                                  *)
(***************************************************************************)
VARIABLES
    srcExists,        \* the source path is a directory that can be opened
    srcDir,           \* the entries of the source directory
    destStatus,       \* "absent", "dir", or "blocked" (cannot be created)
    destDir,          \* the entries of <destination>/src
    pc,               \* the statement the process is at
    buf,              \* main.rs:9
    rfcs_file_names,  \* main.rs:14
    iter,             \* entries the read_dir() of main.rs:33 has yet to yield
    runResult,        \* what run() returned: "none", "Ok", "Err"
    panicAt,          \* where the process panicked, "none" if it did not
    runs,             \* invocations so far
    envChanges,       \* changes made by other processes so far
    \* history, for stating the properties
    src0,             \* srcDir when this invocation started
    dest0,            \* <<destStatus, destDir>> when this invocation started
    list1,            \* the names as the listing of main.rs:14 returned them
    list2,            \* names in the source at the listing of main.rs:33
    copied,           \* names copied by this invocation, in order
    failedStep,       \* the call that failed in this invocation, or "none"
    history           \* destDir at each successful return, in order

vars == <<srcExists, srcDir, destStatus, destDir, pc, buf, rfcs_file_names,
          iter, runResult, panicAt, runs, envChanges, src0, dest0, list1,
          list2, copied, failedStep, history>>

fsVars == <<srcExists, srcDir, destStatus, destDir>>
localVars == <<buf, rfcs_file_names, iter>>
ghostVars == <<src0, dest0, list1, list2, copied, history>>

SrcEntries == {File(DataX), SubDir}
DestEntries == {File(DataY), SubDir}

\* the source directory at the start: up to MaxEntries entries
SrcDirs ==
    UNION {[S -> SrcEntries] : S \in {T \in SUBSET Names : Cardinality(T) <= MaxEntries}}

\* a destination directory that exists at the start: empty, or holding one
\* entry left there earlier
DestDirs == {EmptyDir} \cup {[n \in {m} |-> e] : m \in Names, e \in DestEntries}

\* an I/O call that the state allows to succeed may still fail
Outcomes(possible) == IF possible THEN {TRUE, FALSE} ELSE {FALSE}

Init ==
    /\ srcExists \in BOOLEAN
    /\ srcDir \in (IF srcExists THEN SrcDirs ELSE {EmptyDir})
    /\ destStatus \in {"absent", "dir", "blocked"}
    /\ destDir \in (IF destStatus = "dir"
                    THEN DestDirs ELSE {EmptyDir})
    /\ pc = "main"
    /\ buf = <<>>
    /\ rfcs_file_names = <<>>
    /\ iter = <<>>
    /\ runResult = "none"
    /\ panicAt = "none"
    /\ runs = 1
    /\ envChanges = 0
    /\ src0 = srcDir
    /\ dest0 = <<destStatus, destDir>>
    /\ list1 = <<>>
    /\ list2 = {}
    /\ copied = <<>>
    /\ failedStep = "none"
    /\ history = <<>>

(***************************************************************************)
(* The ways an invocation ends early.                                      *)
(***************************************************************************)
\* `?` in run() returns the error, and main() unwraps it, main.rs:50
ReturnErr(step) ==
    /\ runResult' = "Err"
    /\ panicAt' = "main.rs:50 unwrap"
    /\ failedStep' = step
    /\ pc' = "exited"

\* unwrap()/expect() inside run() ends the process there
PanicInRun(where, step) ==
    /\ runResult' = "none"
    /\ panicAt' = where
    /\ failedStep' = step
    /\ pc' = "exited"

(***************************************************************************)
(* main(), main.rs:41-50, up to the call of run().                         *)
(***************************************************************************)
Main ==
    /\ pc = "main"
    /\ \E argc \in 0..2 :
          IF argc = 0
          THEN /\ pc' = "exited"
               /\ panicAt' = "source path required"
          ELSE IF argc = 1
          THEN /\ pc' = "exited"
               /\ panicAt' = "destination path required"
          ELSE /\ pc' = "create_dir_all"
               /\ panicAt' = panicAt
    /\ UNCHANGED <<fsVars, localVars, ghostVars, runResult, runs, envChanges,
                   failedStep>>

\* main.rs:9-12
CreateDirAll ==
    /\ pc = "create_dir_all"
    /\ buf' = Heading
    /\ \E ok \in Outcomes(destStatus # "blocked") :
          IF ok
          THEN /\ destStatus' = "dir"
               /\ destDir' = DirAfterCreateDirAll(destDir)
               /\ pc' = "read_dir"
               /\ UNCHANGED <<runResult, panicAt, failedStep>>
          ELSE /\ ReturnErr("create_dir_all")
               /\ UNCHANGED <<destStatus, destDir>>
    /\ UNCHANGED <<srcExists, srcDir, rfcs_file_names, iter, ghostVars, runs,
                   envChanges>>

\* main.rs:14-18
ReadDir ==
    /\ pc = "read_dir"
    /\ \E ok \in Outcomes(srcExists) :
          IF ok
          THEN \E q \in Listings(srcDir), entryOk \in BOOLEAN :
                  IF entryOk
                  THEN /\ rfcs_file_names' = q
                       /\ list1' = q
                       /\ pc' = "sort"
                       /\ UNCHANGED <<runResult, panicAt, failedStep>>
                  ELSE /\ PanicInRun("main.rs:17 unwrap", "list")
                       /\ UNCHANGED <<rfcs_file_names, list1>>
          ELSE /\ ReturnErr("list")
               /\ UNCHANGED <<rfcs_file_names, list1>>
    /\ UNCHANGED <<fsVars, buf, iter, src0, dest0, list2, copied, history, runs,
                   envChanges>>

\* main.rs:20
Sort ==
    /\ pc = "sort"
    /\ rfcs_file_names' = SortNames(rfcs_file_names)
    /\ pc' = "format"
    /\ UNCHANGED <<fsVars, buf, iter, ghostVars, runResult, panicAt, runs,
                   envChanges, failedStep>>

\* the names before the first one that to_str() rejects
RECURSIVE Utf8Prefix(_)
Utf8Prefix(names) ==
    IF names = <<>> \/ ~IsUtf8(names[1]) THEN <<>>
    ELSE <<names[1]>> \o Utf8Prefix(Tail(names))

\* main.rs:22-28
Format ==
    /\ pc = "format"
    /\ buf' = buf \o FormatLines(Utf8Prefix(rfcs_file_names))
    /\ IF Utf8Prefix(rfcs_file_names) = rfcs_file_names
       THEN /\ pc' = "file_create"
            /\ UNCHANGED <<runResult, panicAt, failedStep>>
       ELSE PanicInRun("main.rs:25 unwrap", "format")
    /\ UNCHANGED <<fsVars, rfcs_file_names, iter, ghostVars, runs, envChanges>>

IsDirIn(dir, n) == n \in DOMAIN dir /\ dir[n].kind = "dir"
IsFileIn(dir, n) == n \in DOMAIN dir /\ dir[n].kind = "file"

\* main.rs:30: File::create() truncates or creates the file
FileCreate ==
    /\ pc = "file_create"
    /\ \E ok \in Outcomes(~IsDirIn(destDir, SummaryName)) :
          IF ok
          THEN /\ destDir' = Put(destDir, SummaryName, File(<<>>))
               /\ pc' = "write_all"
               /\ UNCHANGED <<runResult, panicAt, failedStep>>
          ELSE /\ ReturnErr("write")
               /\ UNCHANGED destDir
    /\ UNCHANGED <<srcExists, srcDir, destStatus, localVars, ghostVars, runs,
                   envChanges>>

\* main.rs:31: write_all() writes all of buf, or fails after a part of it
WriteAll ==
    /\ pc = "write_all"
    /\ \E k \in 0..Len(buf) :
          /\ destDir' = Put(destDir, SummaryName,
                            File(destDir[SummaryName].data \o SubSeq(buf, 1, k)))
          /\ IF k = Len(buf)
             THEN /\ pc' = "read_dir2"
                  /\ UNCHANGED <<runResult, panicAt, failedStep>>
             ELSE ReturnErr("write")
    /\ UNCHANGED <<srcExists, srcDir, destStatus, localVars, ghostVars, runs,
                   envChanges>>

\* main.rs:33, the read_dir()? that starts the copy loop
ReadDir2 ==
    /\ pc = "read_dir2"
    /\ \E ok \in Outcomes(srcExists) :
          IF ok
          THEN /\ iter' \in SecondListing(srcDir, rfcs_file_names)
               /\ list2' = DOMAIN srcDir
               /\ pc' = "copy"
               /\ UNCHANGED <<runResult, panicAt, failedStep>>
          ELSE /\ ReturnErr("list2")
               /\ UNCHANGED <<iter, list2>>
    /\ UNCHANGED <<fsVars, buf, rfcs_file_names, src0, dest0, list1, copied,
                   history, runs, envChanges>>

\* fs::copy() can succeed: the source is a regular file and the destination
\* name is free or a regular file
CanCopy(n) == IsFileIn(srcDir, n) /\ ~IsDirIn(destDir, n)

\* main.rs:33-36, one turn of the loop
CopyEntry ==
    /\ pc = "copy"
    /\ iter # <<>>
    /\ LET n == Head(iter)
       IN \E entryOk \in BOOLEAN :
             IF ~entryOk
             THEN /\ PanicInRun("main.rs:34 unwrap", "list2")
                  /\ UNCHANGED <<srcDir, destDir, iter, copied>>
             ELSE \E ok \in Outcomes(CanCopy(n)) :
                     IF ok
                     THEN /\ destDir' =
                               Put(destDir, n,
                                   File(CopiedData(srcDir[n].data,
                                          IF n \in DOMAIN destDir
                                          THEN destDir[n].data ELSE <<>>)))
                          /\ srcDir' = SourceAfterCopy(srcDir, n)
                          /\ iter' = Tail(iter)
                          /\ copied' = Append(copied, n)
                          /\ UNCHANGED <<pc, runResult, panicAt, failedStep>>
                     ELSE /\ PanicInRun("could not copy", "copy")
                          \* a copy that fails after opening the destination
                          \* leaves it truncated, or written in full when
                          \* only setting its permissions failed
                          /\ destDir' \in
                               {destDir} \cup
                               (IF CanCopy(n)
                                THEN {Put(destDir, n, File(<<>>)),
                                      Put(destDir, n, File(srcDir[n].data))}
                                ELSE {})
                          /\ UNCHANGED <<srcDir, iter, copied>>
    /\ UNCHANGED <<srcExists, destStatus, buf, rfcs_file_names, src0, dest0,
                   list1, list2, history, runs, envChanges>>

\* main.rs:36-38 and 50: the loop is over, run() returns Ok(()), main() ends
ReturnOk ==
    /\ pc = "copy"
    /\ iter = <<>>
    /\ runResult' = "Ok"
    /\ pc' = "exited"
    /\ history' = Append(history, destDir)
    /\ UNCHANGED <<fsVars, localVars, src0, dest0, list1, list2, copied,
                   panicAt, runs, envChanges, failedStep>>

\* the program is invoked again with the same arguments after a success
Rerun ==
    /\ pc = "exited"
    /\ runResult = "Ok"
    /\ runs < MaxRuns
    /\ runs' = runs + 1
    /\ pc' = "main"
    /\ buf' = <<>>
    /\ rfcs_file_names' = <<>>
    /\ iter' = <<>>
    /\ runResult' = "none"
    /\ panicAt' = "none"
    /\ failedStep' = "none"
    /\ src0' = srcDir
    /\ dest0' = <<destStatus, destDir>>
    /\ list1' = <<>>
    /\ list2' = {}
    /\ copied' = <<>>
    /\ UNCHANGED <<fsVars, envChanges, history>>

RunStep ==
    \/ Main
    \/ CreateDirAll
    \/ ReadDir
    \/ Sort
    \/ Format
    \/ FileCreate
    \/ WriteAll
    \/ ReadDir2
    \/ CopyEntry
    \/ ReturnOk

Next ==
    \/ RunStep
    \/ Rerun

Spec == Init /\ [][Next]_vars

(***************************************************************************)
(* Another process changes the source directory between the two listings   *)
(* of run().                                                               *)
(***************************************************************************)
\* run() has listed the source once and is yet to list it again
BetweenListings ==
    pc \in {"sort", "format", "file_create", "write_all", "read_dir2"}

EnvAdd ==
    /\ BetweenListings
    /\ srcExists
    /\ envChanges < MaxEnvChanges
    /\ Cardinality(DOMAIN srcDir) < MaxEntries
    /\ \E n \in Names \ DOMAIN srcDir :
          srcDir' = Put(srcDir, n, File(DataX))
    /\ envChanges' = envChanges + 1
    /\ UNCHANGED <<srcExists, destStatus, destDir, pc, localVars, runResult,
                   panicAt, runs, ghostVars, failedStep>>

EnvRemove ==
    /\ BetweenListings
    /\ envChanges < MaxEnvChanges
    /\ \E n \in DOMAIN srcDir :
          srcDir' = Without(srcDir, n)
    /\ envChanges' = envChanges + 1
    /\ UNCHANGED <<srcExists, destStatus, destDir, pc, localVars, runResult,
                   panicAt, runs, ghostVars, failedStep>>

\* the source directory holds regular files and the destination is new
InitRace ==
    /\ Init
    /\ srcExists
    /\ \A n \in DOMAIN srcDir : srcDir[n].kind = "file"
    /\ destStatus = "absent"

NextRace ==
    \/ RunStep
    \/ EnvAdd
    \/ EnvRemove

SpecRace == InitRace /\ [][NextRace]_vars

(***************************************************************************)
(* Reading a document back: its lines, and the title and the link of a     *)
(* bullet line "- [title](link)".                                          *)
(***************************************************************************)
Range(q) == {q[i] : i \in DOMAIN q}

\* the lines of a text, each without the newline that ends it
RECURSIVE LinesOf(_)
LinesOf(text) ==
    IF \A i \in DOMAIN text : text[i] # 10 THEN <<>>
    ELSE LET k == CHOOSE i \in DOMAIN text :
                      text[i] = 10 /\ \A j \in 1..(i - 1) : text[j] # 10
         IN <<SubSeq(text, 1, k - 1)>> \o LinesOf(SubSeq(text, k + 1, Len(text)))

\* where "](" starts in a line, 0 if nowhere
SeamOf(line) ==
    LET S == {i \in 1..(Len(line) - 1) : line[i] = 93 /\ line[i + 1] = 40}
    IN IF S = {} THEN 0 ELSE CHOOSE i \in S : \A j \in S : j <= i

IsBullet(line) ==
    /\ Len(line) >= 6
    /\ SubSeq(line, 1, 3) = <<45, 32, 91>>
    /\ line[Len(line)] = 41
    /\ SeamOf(line) >= 4

TitleOf(line) == SubSeq(line, 4, SeamOf(line) - 1)
LinkOf(line) == SubSeq(line, SeamOf(line) + 2, Len(line) - 1)

\* the bullet lines of a document, in order
BulletsOf(text) == SelectSeq(LinesOf(text), IsBullet)

\* the links of the bullet lines of a document, in order
LinksOf(text) == [i \in DOMAIN BulletsOf(text) |-> LinkOf(BulletsOf(text)[i])]

\* byte-wise lexicographic order, stated directly
LexLess(a, b) ==
    \E i \in 1..(Len(b)) :
        /\ \A j \in 1..(i - 1) : j <= Len(a) /\ a[j] = b[j]
        /\ \/ i = Len(a) + 1
           \/ i <= Len(a) /\ a[i] < b[i]

\* run() is past the loop of main.rs:22-28 with buf complete
FormatDone == pc \in {"file_create", "write_all", "read_dir2", "copy"}

\* the content of SUMMARY.md in the destination, <<>> if there is no such file
DestSummary ==
    IF IsFileIn(destDir, SummaryName) THEN destDir[SummaryName].data ELSE <<>>

(***************************************************************************)
(* C5.  Sorting: whatever order the listing returned the names in, the     *)
(* bullet lines of the generated document are the heading, a blank line,   *)
(* and then one line per listed name, in strictly ascending byte-wise      *)
(* lexicographic order of the full name.                                   *)
(***************************************************************************)
C5_Sorted ==
    FormatDone =>
        LET links == LinksOf(buf)
        IN /\ Len(LinesOf(buf)) = Len(links) + 2
           /\ Len(links) = Len(list1)
           /\ Range(links) = Range(list1)
           /\ \A i \in 1..(Len(links) - 1) : LexLess(links[i], links[i + 1])

\* C5: the listing returned "a.md" before "a-b.md", which sorts first by full
\* name and second by title
C5_Witness ==
    /\ pc = "file_create"
    /\ \E i, j \in DOMAIN list1 : i < j /\ list1[i] = NameAMd /\ list1[j] = NameABMd
    /\ LinksOf(buf) = <<NameABMd, NameAMd>>

\* a name with one trailing ".md" removed, if it has one
StripOnce(name) ==
    IF EndsWith(name, DotMd) THEN SubSeq(name, 1, Len(name) - Len(DotMd)) ELSE name

(***************************************************************************)
(* C2.  Extension stripping: the title of every bullet line is its name    *)
(* with exactly one trailing ".md" removed when the name ends in ".md",    *)
(* and the name itself otherwise; the link is the full name.               *)
(***************************************************************************)
C2_TitleStrippedOnce ==
    FormatDone =>
        /\ Range(LinksOf(buf)) = Range(list1)
        /\ \A i \in DOMAIN BulletsOf(buf) :
               TitleOf(BulletsOf(buf)[i]) = StripOnce(LinkOf(BulletsOf(buf)[i]))

\* C2, what does hold of the code: the title is the name with every
\* trailing ".md" removed
C2_TitleStrippedAll ==
    FormatDone =>
        /\ Range(LinksOf(buf)) = Range(list1)
        /\ \A i \in DOMAIN BulletsOf(buf) :
               LET t == TitleOf(BulletsOf(buf)[i])
                   l == LinkOf(BulletsOf(buf)[i])
               IN /\ ~EndsWith(t, DotMd)
                  /\ \E k \in 0..Len(l) :
                        /\ Len(l) = Len(t) + 3 * k
                        /\ SubSeq(l, 1, Len(t)) = t
                        /\ \A j \in 1..k :
                              SubSeq(l, Len(t) + 3 * j - 2, Len(t) + 3 * j) = DotMd

(***************************************************************************)
(* C3.  The generated index survives the run: after a successful run the   *)
(* content of SUMMARY.md in the destination is the generated document.     *)
(***************************************************************************)
C3_IndexSurvives ==
    runResult = "Ok" =>
        /\ IsFileIn(destDir, SummaryName)
        /\ destDir[SummaryName].data = buf
        /\ LinesOf(buf)[1] = <<35, 32, 82, 70, 67, 83>>
        /\ LinesOf(buf)[2] = <<>>
        /\ Range(LinksOf(buf)) = DOMAIN src0

\* C3 with the one case left out in which the copy loop overwrites the index:
\* a source entry named SUMMARY.md
C3_IndexSurvivesUnlessCopiedOver ==
    (runResult = "Ok" /\ SummaryName \notin DOMAIN src0) =>
        /\ IsFileIn(destDir, SummaryName)
        /\ destDir[SummaryName].data = buf
        /\ LinesOf(buf)[1] = <<35, 32, 82, 70, 67, 83>>
        /\ LinesOf(buf)[2] = <<>>
        /\ Range(LinksOf(buf)) = DOMAIN src0

\* how many times x occurs in q
Count(q, x) == Cardinality({i \in DOMAIN q : q[i] = x})

(***************************************************************************)
(* C1.  Completeness: with the source unchanged during the run, after a    *)
(* successful run every source entry has exactly one bullet line in the    *)
(* destination's SUMMARY.md and has been copied exactly once, its copy     *)
(* being a file of that name in the destination.                           *)
(***************************************************************************)
C1_Complete ==
    (runResult = "Ok" /\ srcDir = src0) =>
        \A n \in DOMAIN srcDir :
            /\ Count(LinksOf(DestSummary), n) = 1
            /\ Count(copied, n) = 1
            /\ IsFileIn(destDir, n)

\* C1 for source directories without an entry named SUMMARY.md
C1_CompleteWithoutSummaryEntry ==
    (runResult = "Ok" /\ srcDir = src0 /\ SummaryName \notin DOMAIN srcDir) =>
        \A n \in DOMAIN srcDir :
            /\ Count(LinksOf(DestSummary), n) = 1
            /\ Count(copied, n) = 1
            /\ IsFileIn(destDir, n)
            /\ destDir[n] = srcDir[n]

(***************************************************************************)
(* C4.  Listing failure leaves no output: when the source directory cannot *)
(* be listed, run() fails and the destination is as it was before the run: *)
(* no directory created, no SUMMARY.md written, no file copied.            *)
(***************************************************************************)
C4_ListingFailureNoOutput ==
    failedStep = "list" =>
        /\ runResult # "Ok"
        /\ <<destStatus, destDir>> = dest0

\* C4 as amended: when the source directory cannot be listed, run() fails
\* with no SUMMARY.md written and no file copied, the entries of the
\* destination being those it had before the run; the destination directory
\* itself exists by then, created if it was absent.
C4_ListingFailureOnlyCreatesDir ==
    failedStep = "list" =>
        /\ runResult # "Ok"
        /\ pc = "exited"
        /\ destStatus = "dir"
        /\ destDir = dest0[2]
        /\ copied = <<>>

\* C4: the listing failed for a destination that did not exist before the
\* run and does now
C4_Witness ==
    /\ failedStep = "list"
    /\ runResult = "Err"
    /\ ~srcExists
    /\ dest0[1] = "absent"
    /\ destStatus = "dir"

(***************************************************************************)
(* C6.  Idempotence: with the source unchanged, a second successful run    *)
(* leaves the destination directory (SUMMARY.md and every file) as the     *)
(* first successful run left it.                                           *)
(***************************************************************************)
C6_Idempotent ==
    \A i \in 2..Len(history) : history[i] = history[i - 1]

\* C6: two runs succeeded, each copying two files and writing an index of two
\* bullet lines
C6_Witness ==
    /\ Len(history) = 2
    /\ runResult = "Ok"
    /\ Len(copied) = 2
    /\ Len(LinksOf(DestSummary)) = 2
    /\ srcDir = src0

\* the state a failed copy is said to leave
AfterCopyFailure ==
    /\ pc = "exited"
    /\ runResult = "none"
    /\ iter # <<>>
    /\ \A i \in DOMAIN iter : iter[i] \notin Range(copied)
    /\ IsFileIn(destDir, SummaryName)
    /\ destDir[SummaryName].data = buf
    /\ Range(LinksOf(DestSummary)) = DOMAIN srcDir
    /\ \A n \in Range(copied) : IsFileIn(destDir, n) /\ destDir[n] = srcDir[n]

(***************************************************************************)
(* C7.  Copy failure part-way: when the copy of an entry fails the run     *)
(* stops at that entry, no later entry of the listing is copied, nothing   *)
(* is undone, SUMMARY.md is written in full and lists every source entry,  *)
(* and every entry copied before the failure is in the destination.        *)
(***************************************************************************)
C7_CopyFailure == panicAt = "could not copy" => AfterCopyFailure

\* C7 for source directories without an entry named SUMMARY.md
C7_CopyFailureWithoutSummaryEntry ==
    (panicAt = "could not copy" /\ SummaryName \notin DOMAIN srcDir) =>
        AfterCopyFailure

\* the process ended inside run(), which returned nothing
EndedInRun ==
    /\ pc = "exited"
    /\ runResult = "none"
    /\ panicAt \notin {"none", "source path required", "destination path required"}

(***************************************************************************)
(* C8.  Error channel: a failure of directory creation, of listing the     *)
(* source for the index, or of writing SUMMARY.md makes run() return an    *)
(* error; the process ends inside run() only when a copy fails; run()      *)
(* returns Ok only if no step failed.                                      *)
(***************************************************************************)
C8_ErrorChannel ==
    /\ failedStep \in {"create_dir_all", "list", "write"} => runResult = "Err"
    /\ EndedInRun => failedStep = "copy"
    /\ runResult = "Ok" => failedStep = "none" /\ panicAt = "none"

\* C8, what does hold of the code: the process also ends inside run() at the
\* unwrap() of a directory entry and at the unwrap() of to_str()
C8_ErrorChannelWithUnwraps ==
    /\ (failedStep \in {"create_dir_all", "write"}) => runResult = "Err"
    /\ (failedStep \in {"list", "list2"} /\ ~EndedInRun) => runResult = "Err"
    /\ EndedInRun =>
          \/ failedStep = "copy" /\ panicAt = "could not copy"
          \/ failedStep = "list" /\ panicAt = "main.rs:17 unwrap"
          \/ failedStep = "format" /\ panicAt = "main.rs:25 unwrap"
          \/ failedStep = "list2" /\ panicAt = "main.rs:34 unwrap"
    /\ runResult = "Ok" => failedStep = "none" /\ panicAt = "none"

(***************************************************************************)
(* C9.  Double listing: the index holds the names of the first listing and *)
(* the copy loop copies the names of the second, taken after SUMMARY.md is *)
(* written; with the source changed in between, a successful run leaves    *)
(* copied files that the index does not list and index lines whose file    *)
(* was not copied.                                                         *)
(***************************************************************************)
C9_TwoListings ==
    /\ pc = "copy" => IsFileIn(destDir, SummaryName)
    /\ runResult = "Ok" =>
          /\ Range(LinksOf(buf)) = Range(list1)
          /\ Range(copied) = list2
          /\ SummaryName \notin list2 => DestSummary = buf

\* C9: a successful run whose SUMMARY.md lists an entry that was not copied and
\* misses an entry that was
C9_Witness ==
    /\ runResult = "Ok"
    /\ SummaryName \notin Range(copied)
    /\ \E n \in Range(copied) :
          IsFileIn(destDir, n) /\ n \notin Range(LinksOf(DestSummary))
    /\ \E m \in Range(LinksOf(DestSummary)) :
          m \notin Range(copied) /\ m \notin DOMAIN destDir

\* an entry the destination held before the run that the run has no reason
\* to touch
Stale(n) == n \in DOMAIN dest0[2] /\ n # SummaryName /\ n \notin DOMAIN src0

(***************************************************************************)
(* C10.  Frame: a run leaves every source entry as it was, and leaves as   *)
(* it was every entry the destination already held whose name is neither   *)
(* SUMMARY.md nor the name of a source entry; such a stale entry is not    *)
(* listed in the SUMMARY.md a successful run leaves.                       *)
(***************************************************************************)
C10_Frame ==
    /\ srcDir = src0
    /\ \A n \in Names :
          Stale(n) =>
              /\ n \in DOMAIN destDir
              /\ destDir[n] = dest0[2][n]
              /\ runResult = "Ok" => n \notin Range(LinksOf(DestSummary))

\* C10: a successful run that copied a file and left a stale one beside it
C10_Witness ==
    /\ runResult = "Ok"
    /\ copied # <<>>
    /\ NameAMd \in Range(LinksOf(DestSummary))
    /\ \E n \in Names : Stale(n) /\ IsFileIn(destDir, n)

=============================================================================
